---- MODULE Spec2Model ----
(***************************************************************************)
(* Interaction logic of the short-form video feed client:                  *)
(*   - VideoPlayer (src/src/components/feed/VideoPlayer.tsx): one feed     *)
(*     row, its play/pause bookkeeping, sensitive-content gate, controls   *)
(*     auto-hide timer and timeline scrub handlers;                        *)
(*   - LoopsFeed (src/src/app/(tabs)/index.tsx) and ProfileFeed            *)
(*     (src/unnamed/part_000): pagination, viewability, refresh and watch  *)
(*     impressions.                                                        *)
(* Every handler is one action; the React effects a handler triggers are   *)
(* part of the action (a render and its effects complete before the next   *)
(* event is processed).                                                    *)
(***************************************************************************)
EXTENDS Integers, Sequences, FiniteSets, TLC

VARIABLES
    \* ---- VideoPlayer: props -------------------------------------------
    mounted,              \* the row's component exists (virtualized list)
    is_sensitive,         \* item.is_sensitive
    isActive,             \* prop isActive
    screenFocused,        \* prop screenFocused / LoopsFeed state screenFocused
    commentsOpen,         \* prop commentsOpen
    shareOpen,            \* prop shareOpen
    otherOpen,            \* prop otherOpen
    \* ---- VideoPlayer: state and refs ----------------------------------
    isPlaying,            \* useState isPlaying
    showControls,         \* useState showControls
    showDurationControl,  \* useState showDurationControl
    playSensitive,        \* useState playSensitive
    manualControlRef,     \* useRef manualControlRef.current
    wasActiveRef,         \* useRef wasActiveRef.current
    controlsTimeoutRef,   \* useRef: "null", "pending" (live timer), "fired"
    pendingTimers,        \* number of auto-hide timers not yet fired/cleared
    \* ---- video engine (expo-video player handle) ----------------------
    enginePlaying,        \* player.playing
    currentTime,          \* player.currentTime
    engineMayThrow,       \* the engine handle can reject commands (released)
    \* ---- gesture and error bookkeeping --------------------------------
    touching,             \* a touch that started on the timeline is down
    raised,               \* the last handler let an exception escape
    \* ---- history of the current activation ----------------------------
    ackedInActivation,    \* 'watch anyway' pressed during this activation
    ackedSinceReset,      \* 'watch anyway' pressed since last deactivation
    toggledInActivation,  \* togglePlayPause ran since last deactivation
    \* ---- feed screen (LoopsFeed / ProfileFeed): React state and refs ---
    screen,               \* which screen component: "feed" or "profile"
    screenMounted,        \* the screen component is mounted
    activeTab,            \* useState activeTab
    currentIndex,         \* useState currentIndex
    currentVideoRef,      \* useRef currentVideoRef.current
    watchStartTimeRef,    \* useRef watchStartTimeRef.current (ms; 0: null)
    \* ---- remote configuration and preference store --------------------
    appConfig,            \* useQuery(['appConfig']): "loading", "failed", "fyfOn", "fyfOff"
    hideForYouFeed,       \* auth store flag hideForYouFeed
    \* ---- useInfiniteQuery result for the current query key ------------
    dataLoaded,           \* data !== undefined
    itemCount,            \* number of items in data.pages
    hasNextPage,          \* hasNextPage
    fetchStatus,          \* "idle", "fetching" (first page / refetch), "paginating"
    refreshFetches,       \* fetches produced by onRefresh for the refresh now pending
    \* ---- FlatList ------------------------------------------------------
    scrollOffset,         \* scroll offset in half rows (a row fills the viewport)
    viewableReported,     \* rows last passed to onViewableItemsChanged
    \* ---- clock ---------------------------------------------------------
    now,                  \* Date.now() in ms
    \* ---- what the last handler did -------------------------------------
    lastOp,               \* name of the last event handled by the screen
    viewableEvent,        \* viewableItems delivered in the last step, or NoEvent
    emitted,              \* recordImpression calls made in the last step
    issued,               \* fetch calls made in the last step
    \* ---- feed screen: modals and scroll lock --------------------------
    selectedVideo,        \* useState selectedVideo
    showComments,         \* useState showComments
    showShare,            \* useState showShare
    showOther,            \* useState showOther
    videoPlaybackRates,   \* useState videoPlaybackRates: item id -> speed
    \* ---- utility functions -------------------------------------------
    utilCall,             \* last call of a utility: function, arguments, result
    timelineIsControlled, \* useState timelineIsControlled
    \* ---- VideoPlayer: engagement ---------------------------------------
    has_liked,            \* item.has_liked
    has_bookmarked,       \* item.has_bookmarked
    isLiked,              \* useState isLiked
    isBookmarked,         \* useState isBookmarked
    likeTaps,             \* like taps since the row was mounted
    bookmarkTaps,         \* bookmark taps since the row was mounted
    pendingMutations      \* like/bookmark mutations not settled yet

playerVars ==
    << mounted, is_sensitive, isActive, commentsOpen, shareOpen,
       otherOpen, isPlaying, showControls, showDurationControl, playSensitive,
       manualControlRef, wasActiveRef, controlsTimeoutRef, pendingTimers,
       enginePlaying, currentTime, engineMayThrow, touching, raised,
       ackedInActivation, ackedSinceReset, toggledInActivation >>

feedVars ==
    << screen, screenMounted, activeTab, currentIndex, currentVideoRef,
       watchStartTimeRef, appConfig, hideForYouFeed, dataLoaded, itemCount,
       hasNextPage, fetchStatus, refreshFetches, scrollOffset, viewableReported,
       now, lastOp,
       viewableEvent, emitted, issued >>

modalVars ==
    << selectedVideo, showComments, showShare, showOther, videoPlaybackRates >>

engagementVars ==
    << has_liked, has_bookmarked, isLiked, isBookmarked, likeTaps,
       bookmarkTaps, pendingMutations >>

vars ==
    << playerVars, screenFocused, feedVars, modalVars, utilCall, timelineIsControlled,
       engagementVars >>

\* ---------------------------------------------------------------- bounds
\* player.duration of the row's media, in whole seconds
Duration == 2
\* horizontal touch positions are sampled at 0..ScreenWidth
ScreenWidth == 2

\* ------------------------------------------------------------- constants
\* Outcome of the engine commands a handler issues: none fails, the seek
\* (player.currentTime = 0) throws, or the play()/pause() command throws.
Faults == IF engineMayThrow THEN {"none", "seek", "command"} ELSE {"none"}
CommandFaults == Faults \ {"seek"}

\* isMountedRef is created true and never written again.
isMountedRef == TRUE

\* Props the feed screens pass to a VideoPlayer row.
PassedProps ==
    { "item", "isActive", "onLike", "onComment", "onShare", "onBookmark",
      "onOther", "bottomInset", "commentsOpen", "shareOpen", "otherOpen",
      "onMorePress", "screenFocused", "videoPlaybackRates", "navigation",
      "onNavigate", "onTimelineControlledChanged" }

\* The scroll-lock callback the player destructures from its props.
onTimelineControlledDefined == "onTimelineControlled" \in PassedProps

\* ================================================================ feed
\* ---------------------------------------------------------------- bounds
\* items a feed can hold
MaxItems == 2
\* clock ticks the model runs for
MaxTicks == 4
\* length of one clock tick in ms
TickMs == 600
\* refresh fetches counted for one pending refresh
MaxRefetches == 2
\* like (bookmark) taps followed on one mounted row, and mutations in flight
MaxTaps == 3
\* longest text given to truncate, in UTF-16 code units
MaxLen == 4
\* item.likes and item.bookmarks of the row
ItemLikes == 3
ItemBookmarks == 1

\* ------------------------------------------------------------- constants
Tabs == {"following", "local", "forYou"}
Undefined == << "undefined" >>
Null == << "null" >>
NoEvent == [called |-> FALSE, viewableItems |-> << >>, effects |-> << >>]
EndMarker == << "end-of-feed", 0 >>

\* The item at position i (from 0) of the feed of kind t.
Video(t, i) == << t, i >>

\* video.media.duration in seconds (0: absent).
MediaDuration(v) == CASE v[2] = 0 -> 2 [] v[2] = 1 -> 0 [] OTHER -> 1

\* Feed-screen variables while only a player row is under study.
\* The empty object {} : no item has a speed of its own.
NoRates == [id \in { } |-> "1.0"]

\* Speeds the more-options modal offers.
Speeds == {"0.5", "2.0"}

ModalsIdle ==
    /\ selectedVideo = Null
    /\ videoPlaybackRates = NoRates
    /\ showComments = FALSE /\ showShare = FALSE /\ showOther = FALSE
    /\ timelineIsControlled = FALSE

\* The row's engagement state while it is not under study.
EngagementIdle ==
    /\ has_liked = FALSE /\ has_bookmarked = FALSE
    /\ isLiked = FALSE /\ isBookmarked = FALSE
    /\ likeTaps = 0 /\ bookmarkTaps = 0 /\ pendingMutations = 0

\* No utility has been called.
NoCall == [fn |-> "none"]

FeedIdle ==
    /\ ModalsIdle
    /\ utilCall = NoCall
    /\ screen = "feed" /\ screenMounted = FALSE
    /\ activeTab = "local" /\ currentIndex = 0
    /\ currentVideoRef = Null /\ watchStartTimeRef = 0
    /\ appConfig = "loading" /\ hideForYouFeed = FALSE
    /\ dataLoaded = FALSE /\ itemCount = 0 /\ hasNextPage = FALSE
    /\ fetchStatus = "idle" /\ refreshFetches = 0
    /\ scrollOffset = 0 /\ viewableReported = << >>
    /\ now = TickMs
    /\ lastOp = "none" /\ viewableEvent = NoEvent
    /\ emitted = << >> /\ issued = << >>

\* ---------------------------------------------------- derived render values
isFetching == fetchStatus # "idle"
isFetchingNextPage == fetchStatus = "paginating"
isConfigLoading == appConfig = "loading"
forYouEnabled == appConfig = "fyfOn" /\ ~hideForYouFeed

IsLoadingOf(loaded, status) == ~loaded /\ status # "idle"
isLoading == IsLoadingOf(dataLoaded, fetchStatus)

\* Key of the query the screen observes.
QueryTab(tab) == IF screen = "profile" THEN "profile" ELSE tab

VideosOf(tab, loaded, n) ==
    IF loaded THEN [i \in 1..n |-> Video(QueryTab(tab), i - 1)] ELSE << >>
videos == VideosOf(activeTab, dataLoaded, itemCount)

\* Variant that adds the end-of-feed row to an empty list of any feed kind.
RowsOf_AnyTab(tab, loaded, n, more) ==
    IF screen = "feed" /\ ~more /\ Len(VideosOf(tab, loaded, n)) = 0
    THEN VideosOf(tab, loaded, n) \o << EndMarker >>
    ELSE VideosOf(tab, loaded, n)

\* videosWithEnd (the profile screen renders videos as they are).
RowsOf(tab, loaded, n, more) ==
    IF screen = "feed" /\ tab = "forYou" /\ ~more /\ Len(VideosOf(tab, loaded, n)) = 0
    THEN VideosOf(tab, loaded, n) \o << EndMarker >>
    ELSE VideosOf(tab, loaded, n)
videosWithEnd == RowsOf(activeTab, dataLoaded, itemCount, hasNextPage)

\* A RefreshControl that is never told a refresh is pending.
refreshing_Never == FALSE

refreshing == isFetching /\ ~isFetchingNextPage

\* renderItem: what a row is rendered as (item.isEndMarker is set on the
\* synthesized row only).
isEndMarker(item) == item[1] = "end-of-feed"
renderItem(item) ==
    IF screen = "feed" /\ isEndMarker(item) THEN "endOfFeedMessage" ELSE "VideoPlayer"

\* --------------------------------------------------------------- FlatList
\* The list is rendered unless the loading view replaces the screen.
ListMounted == screenMounted /\ ~isLoading

MaxOffset(rowCount) == IF rowCount = 0 THEN 0 ELSE 2 * (rowCount - 1)
Clamp(offset, rowCount) ==
    IF offset > MaxOffset(rowCount) THEN MaxOffset(rowCount) ELSE offset

\* Rows at least 50% visible at an offset (itemVisiblePercentThreshold: 50),
\* as view tokens in increasing index order.
ViewableAt(offset, rows) ==
    IF Len(rows) = 0 THEN << >>
    ELSE IF offset % 2 = 0
         THEN << [index |-> offset \div 2, item |-> rows[offset \div 2 + 1]] >>
         ELSE << [index |-> (offset - 1) \div 2, item |-> rows[(offset - 1) \div 2 + 1]],
                 [index |-> (offset + 1) \div 2, item |-> rows[(offset + 1) \div 2 + 1]] >>

ItemsOf(viewableItems) == [i \in 1..Len(viewableItems) |-> viewableItems[i].item]

ViewableNow == ViewableAt(scrollOffset, videosWithEnd)

\* The list has a changed visible set it has not reported yet.
ReportPending == ListMounted /\ ItemsOf(ViewableNow) # viewableReported

\* List state after a render: a list that (re)mounts starts at the top with
\* nothing reported; a list that stays keeps its offset within its content.
ListAfter(tab, loaded, n, more, status, offset) ==
    IF ListMounted /\ ~IsLoadingOf(loaded, status)
    THEN /\ scrollOffset' = Clamp(offset, Len(RowsOf(tab, loaded, n, more)))
         /\ viewableReported' = viewableReported
    ELSE /\ scrollOffset' = 0
         /\ viewableReported' = << >>

\* ---------------------------------------------------------- impressions
\* Variant that records impressions whatever the feed kind.
recordVideoImpression_AnyTab(tab, video, durationMs) ==
    IF video = Null \/ video = Undefined THEN << >>
    ELSE IF durationMs < 1000 THEN << >>
    ELSE LET videoDuration == MediaDuration(video)
             completed == videoDuration > 0 /\ durationMs >= videoDuration * 900
         IN  << [id |-> video, duration |-> durationMs, completed |-> completed] >>

\* Variant whose completed flag needs more than 90% of the media duration.
recordVideoImpression_Over90(tab, video, durationMs) ==
    IF tab # "forYou" \/ video = Null \/ video = Undefined THEN << >>
    ELSE IF durationMs < 1000 THEN << >>
    ELSE LET videoDuration == MediaDuration(video)
             completed == videoDuration > 0 /\ durationMs > videoDuration * 900
         IN  << [id |-> video, duration |-> durationMs, completed |-> completed] >>

\* recordVideoImpression(video, duration) as created in a render whose
\* activeTab is tab: the recordImpression calls it makes.
recordVideoImpression(tab, video, durationMs) ==
    IF tab # "forYou" \/ video = Null \/ video = Undefined THEN << >>
    ELSE IF durationMs < 1000 THEN << >>
    ELSE LET videoDuration == MediaDuration(video)
             completed == videoDuration > 0 /\ durationMs >= videoDuration * 900
         IN  << [id |-> video, duration |-> durationMs, completed |-> completed] >>

\* The guarded call shared by the visibility callback and the cleanups.
ImpressionIfWatching(tab) ==
    IF currentVideoRef # Null /\ currentVideoRef # Undefined
       /\ watchStartTimeRef # 0
    THEN recordVideoImpression(tab, currentVideoRef, now - watchStartTimeRef)
    ELSE << >>

\* Cleanup of the effect with deps [activeTab, recordVideoImpression].
UnmountEffectCleanup(tab) == ImpressionIfWatching(tab)

\* A focus-effect cleanup that records nothing.
FocusEffectCleanup_Silent(tab) == << >>

\* Cleanup of the second useFocusEffect (runs only while focused).
FocusEffectCleanup(tab) == ImpressionIfWatching(tab)

\* Variant that takes the last view token.
FirstViewableIndex_Last(viewableItems) == viewableItems[Len(viewableItems)].index

\* viewableItems[0].index || 0
FirstViewableIndex(viewableItems) ==
    IF viewableItems[1].index = 0 THEN 0 ELSE viewableItems[1].index

\* videos[newIndex]
VideoAt(vs, index) == IF index + 1 \in 1..Len(vs) THEN vs[index + 1] ELSE Undefined

\* ----------------------------------------------------- VideoPlayer render
\* The sensitive-content gate replaces the whole player (early return).
GateRendered == is_sensitive /\ ~playSensitive

\* State the effects read and write, as a record.
Session ==
    [ isPlaying |-> isPlaying, enginePlaying |-> enginePlaying,
      manualControlRef |-> manualControlRef, wasActiveRef |-> wasActiveRef,
      playSensitive |-> playSensitive, currentTime |-> currentTime ]

FreshSession ==
    [ isPlaying |-> FALSE, enginePlaying |-> FALSE,
      manualControlRef |-> FALSE, wasActiveRef |-> FALSE,
      playSensitive |-> FALSE, currentTime |-> 0 ]

\* Variant of the automatic effect that ignores the sensitive-content gate.
AutoControlEffect_NoGate(s, active, focused, fault) ==
    IF s.manualControlRef THEN s
    ELSE
        LET shouldPlay == active /\ focused
            seek == active /\ ~s.wasActiveRef
        IN  IF seek /\ fault = "seek" THEN s
            ELSE
                LET s1 == IF seek THEN [s EXCEPT !.currentTime = 0] ELSE s
                IN  IF fault = "command" THEN s1
                    ELSE [s1 EXCEPT !.enginePlaying = shouldPlay,
                                    !.isPlaying = shouldPlay,
                                    !.wasActiveRef = active]

\* The automatic play/pause effect (deps: isActive, commentsOpen, shareOpen,
\* otherOpen, screenFocused, player, item.is_sensitive, playSensitive).
AutoControlEffect(s, active, focused, fault) ==
    IF s.manualControlRef THEN s
    ELSE
        LET shouldPlay == active /\ focused /\ ~(is_sensitive /\ ~s.playSensitive)
            seek == active /\ ~s.wasActiveRef
        IN  IF seek /\ fault = "seek" THEN s
            ELSE
                LET s1 == IF seek THEN [s EXCEPT !.currentTime = 0] ELSE s
                IN  IF fault = "command" THEN s1
                    ELSE IF ~isMountedRef THEN [s1 EXCEPT !.wasActiveRef = active]
                    ELSE [s1 EXCEPT !.enginePlaying = shouldPlay,
                                    !.isPlaying = shouldPlay,
                                    !.wasActiveRef = active]

\* The reset effect (deps: isActive).
InactiveResetEffect(s, active) ==
    IF ~active
    THEN [s EXCEPT !.manualControlRef = FALSE, !.playSensitive = FALSE]
    ELSE s

\* Effects after a render in which isActive changed: the automatic effect,
\* the reset effect, and the automatic effect again when the reset changed
\* playSensitive (a state change re-renders; playSensitive is a dependency).
EffectsOnActiveChange(s, active, focused, f1, f2) ==
    LET s1 == AutoControlEffect(s, active, focused, f1)
        s2 == InactiveResetEffect(s1, active)
    IN  IF s2.playSensitive # s1.playSensitive
        THEN AutoControlEffect(s2, active, focused, f2)
        ELSE s2

\* Effects of the first render of a row.
EffectsOnMount(active, focused, f1) ==
    InactiveResetEffect(AutoControlEffect(FreshSession, active, focused, f1), active)

Commit(s) ==
    /\ isPlaying' = s.isPlaying
    /\ enginePlaying' = s.enginePlaying
    /\ manualControlRef' = s.manualControlRef
    /\ wasActiveRef' = s.wasActiveRef
    /\ playSensitive' = s.playSensitive
    /\ currentTime' = s.currentTime

\* The timeline (and every control) is gone once the gate is rendered: a
\* touch that was down on it is never delivered to it again.
TouchAfter(s) == touching /\ ~(is_sensitive /\ ~s.playSensitive)

\* --------------------------------------------------------------- actions
PlayerStart ==
    /\ FeedIdle
    /\ EngagementIdle
    /\ mounted = FALSE
    /\ is_sensitive \in BOOLEAN
    /\ isActive \in BOOLEAN
    /\ screenFocused = TRUE
    /\ commentsOpen = FALSE /\ shareOpen = FALSE /\ otherOpen = FALSE
    /\ isPlaying = FALSE /\ showControls = FALSE /\ showDurationControl = FALSE
    /\ playSensitive = FALSE /\ manualControlRef = FALSE /\ wasActiveRef = FALSE
    /\ controlsTimeoutRef = "null" /\ pendingTimers = 0
    /\ enginePlaying = FALSE /\ currentTime = 0
    /\ touching = FALSE /\ raised = FALSE
    /\ ackedInActivation = FALSE /\ ackedSinceReset = FALSE
    /\ toggledInActivation = FALSE

\* The list mounts the row: useState/useRef initial values, then the effects.
Mount ==
    /\ UNCHANGED << feedVars, modalVars, utilCall, timelineIsControlled >>
    /\ isLiked' = has_liked /\ isBookmarked' = has_bookmarked
    /\ likeTaps' = 0 /\ bookmarkTaps' = 0
    /\ UNCHANGED << has_liked, has_bookmarked, pendingMutations >>
    /\ ~mounted
    /\ mounted' = TRUE
    /\ \E f \in Faults : Commit(EffectsOnMount(isActive, screenFocused, f))
    /\ showControls' = FALSE /\ showDurationControl' = FALSE
    /\ controlsTimeoutRef' = "null"
    /\ touching' = FALSE /\ raised' = FALSE
    /\ ackedInActivation' = FALSE /\ ackedSinceReset' = FALSE
    /\ toggledInActivation' = FALSE
    /\ UNCHANGED << is_sensitive, engineMayThrow, isActive, screenFocused, commentsOpen,
                    shareOpen, otherOpen, pendingTimers >>

\* The list unmounts the row: the cleanup effect clears the timer the ref
\* holds; the engine handle is released with the component.
Unmount ==
    /\ UNCHANGED << feedVars, modalVars, utilCall, timelineIsControlled >>
    /\ isLiked' = has_liked /\ isBookmarked' = has_bookmarked
    /\ likeTaps' = 0 /\ bookmarkTaps' = 0
    /\ UNCHANGED << has_liked, has_bookmarked, pendingMutations >>
    /\ mounted
    /\ mounted' = FALSE
    /\ pendingTimers' = IF controlsTimeoutRef = "pending"
                        THEN pendingTimers - 1 ELSE pendingTimers
    /\ Commit(FreshSession)
    /\ showControls' = FALSE /\ showDurationControl' = FALSE
    /\ controlsTimeoutRef' = "null"
    /\ touching' = FALSE /\ raised' = FALSE
    /\ ackedInActivation' = FALSE /\ ackedSinceReset' = FALSE
    /\ toggledInActivation' = FALSE
    /\ UNCHANGED << is_sensitive, engineMayThrow, isActive, screenFocused, commentsOpen,
                    shareOpen, otherOpen >>

\* The feed's active index moves onto or off this row (prop isActive).
ActiveChanged ==
    /\ UNCHANGED << feedVars, modalVars, utilCall, timelineIsControlled, engagementVars >>
    /\ isActive' = ~isActive
    /\ IF mounted
       THEN \E f1 \in Faults, f2 \in Faults :
              LET s == EffectsOnActiveChange(Session, ~isActive, screenFocused, f1, f2)
              IN  /\ Commit(s)
                  /\ touching' = TouchAfter(s)
       ELSE UNCHANGED << isPlaying, enginePlaying, manualControlRef, wasActiveRef,
                         playSensitive, currentTime, touching >>
    /\ raised' = FALSE
    /\ ackedInActivation' = FALSE
    /\ ackedSinceReset' = IF isActive THEN FALSE ELSE ackedSinceReset
    /\ toggledInActivation' = IF isActive THEN FALSE ELSE toggledInActivation
    /\ UNCHANGED << mounted, is_sensitive, engineMayThrow, screenFocused, commentsOpen, shareOpen,
                    otherOpen, showControls, showDurationControl,
                    controlsTimeoutRef, pendingTimers >>

\* The screen gains or loses focus (prop screenFocused).
FocusChanged ==
    /\ UNCHANGED << feedVars, modalVars, utilCall, timelineIsControlled, engagementVars >>
    /\ screenFocused' = ~screenFocused
    /\ IF mounted
       THEN \E f \in Faults :
              Commit(AutoControlEffect(Session, isActive, ~screenFocused, f))
       ELSE UNCHANGED << isPlaying, enginePlaying, manualControlRef, wasActiveRef,
                         playSensitive, currentTime >>
    /\ raised' = FALSE
    /\ UNCHANGED << mounted, is_sensitive, engineMayThrow, isActive, commentsOpen, shareOpen,
                    otherOpen, showControls, showDurationControl,
                    controlsTimeoutRef, pendingTimers, touching,
                    ackedInActivation, ackedSinceReset, toggledInActivation >>

\* A comment / share / more-options modal opens or closes for this row
\* (props commentsOpen, shareOpen, otherOpen): the automatic effect re-runs.
ModalChanged ==
    /\ UNCHANGED << feedVars, modalVars, utilCall, timelineIsControlled, engagementVars >>
    /\ \E m \in {"comments", "share", "other"} :
         /\ commentsOpen' = IF m = "comments" THEN ~commentsOpen ELSE commentsOpen
         /\ shareOpen' = IF m = "share" THEN ~shareOpen ELSE shareOpen
         /\ otherOpen' = IF m = "other" THEN ~otherOpen ELSE otherOpen
    /\ IF mounted
       THEN \E f \in Faults :
              Commit(AutoControlEffect(Session, isActive, screenFocused, f))
       ELSE UNCHANGED << isPlaying, enginePlaying, manualControlRef, wasActiveRef,
                         playSensitive, currentTime >>
    /\ raised' = FALSE
    /\ UNCHANGED << mounted, is_sensitive, engineMayThrow, isActive, screenFocused,
                    showControls, showDurationControl,
                    controlsTimeoutRef, pendingTimers, touching,
                    ackedInActivation, ackedSinceReset, toggledInActivation >>

\* 'Watch anyways' on the gate: setPlaySensitive(true); playSensitive is a
\* dependency of the automatic effect, which re-runs.
handleViewSensitiveContent ==
    /\ UNCHANGED << feedVars, modalVars, utilCall, timelineIsControlled, engagementVars >>
    /\ mounted /\ GateRendered
    /\ \E f \in Faults :
         Commit(AutoControlEffect([Session EXCEPT !.playSensitive = TRUE],
                                  isActive, screenFocused, f))
    /\ raised' = FALSE
    /\ ackedInActivation' = isActive
    /\ ackedSinceReset' = TRUE
    /\ UNCHANGED << mounted, is_sensitive, engineMayThrow, isActive, screenFocused, commentsOpen,
                    shareOpen, otherOpen, showControls, showDurationControl,
                    controlsTimeoutRef, pendingTimers, touching,
                    toggledInActivation >>

\* Tap on the video (the Pressable is disabled while the controls show).
handleScreenPress_NoTimer ==
    /\ UNCHANGED << feedVars, modalVars, utilCall, timelineIsControlled, engagementVars >>
    /\ mounted /\ ~GateRendered /\ ~showControls
    /\ isMountedRef
    /\ LET newShowControls == ~showControls
           cleared == IF controlsTimeoutRef = "pending"
                      THEN pendingTimers - 1 ELSE pendingTimers
       IN  /\ showControls' = newShowControls
           /\ IF newShowControls
              THEN /\ pendingTimers' = cleared
                   /\ controlsTimeoutRef' = "null"
                   /\ UNCHANGED manualControlRef
              ELSE /\ pendingTimers' = cleared
                   /\ controlsTimeoutRef' = "null"
                   /\ manualControlRef' = FALSE
    /\ raised' = FALSE
    /\ UNCHANGED << mounted, is_sensitive, engineMayThrow, isActive, screenFocused, commentsOpen,
                    shareOpen, otherOpen, isPlaying, showDurationControl,
                    playSensitive, wasActiveRef, enginePlaying, currentTime,
                    touching, ackedInActivation, ackedSinceReset,
                    toggledInActivation >>

\* Variant that arms a new timer without clearing the previous one.
handleScreenPress_NoClear ==
    /\ UNCHANGED << feedVars, modalVars, utilCall, timelineIsControlled, engagementVars >>
    /\ mounted /\ ~GateRendered /\ ~showControls
    /\ isMountedRef
    /\ LET newShowControls == ~showControls
           cleared == pendingTimers
       IN  /\ showControls' = newShowControls
           /\ IF newShowControls
              THEN /\ pendingTimers' = cleared + 1
                   /\ controlsTimeoutRef' = "pending"
                   /\ UNCHANGED manualControlRef
              ELSE /\ pendingTimers' = cleared
                   /\ controlsTimeoutRef' = "null"
                   /\ manualControlRef' = FALSE
    /\ raised' = FALSE
    /\ UNCHANGED << mounted, is_sensitive, engineMayThrow, isActive, screenFocused, commentsOpen,
                    shareOpen, otherOpen, isPlaying, showDurationControl,
                    playSensitive, wasActiveRef, enginePlaying, currentTime,
                    touching, ackedInActivation, ackedSinceReset,
                    toggledInActivation >>

handleScreenPress ==
    /\ UNCHANGED << feedVars, modalVars, utilCall, timelineIsControlled, engagementVars >>
    /\ mounted /\ ~GateRendered /\ ~showControls
    /\ isMountedRef
    /\ LET newShowControls == ~showControls
           cleared == IF controlsTimeoutRef = "pending"
                      THEN pendingTimers - 1 ELSE pendingTimers
       IN  /\ showControls' = newShowControls
           /\ IF newShowControls
              THEN /\ pendingTimers' = cleared + 1
                   /\ controlsTimeoutRef' = "pending"
                   /\ UNCHANGED manualControlRef
              ELSE /\ pendingTimers' = cleared
                   /\ controlsTimeoutRef' = "null"
                   /\ manualControlRef' = FALSE
    /\ raised' = FALSE
    /\ UNCHANGED << mounted, is_sensitive, engineMayThrow, isActive, screenFocused, commentsOpen,
                    shareOpen, otherOpen, isPlaying, showDurationControl,
                    playSensitive, wasActiveRef, enginePlaying, currentTime,
                    touching, ackedInActivation, ackedSinceReset,
                    toggledInActivation >>

\* The 3000 ms auto-hide timer fires.
controlsTimeout ==
    /\ UNCHANGED << feedVars, modalVars, utilCall, timelineIsControlled, engagementVars >>
    /\ pendingTimers > 0
    /\ pendingTimers' = pendingTimers - 1
    /\ controlsTimeoutRef' = IF controlsTimeoutRef = "pending"
                             THEN "fired" ELSE controlsTimeoutRef
    /\ IF isMountedRef
       THEN showControls' = FALSE /\ manualControlRef' = FALSE
       ELSE UNCHANGED << showControls, manualControlRef >>
    /\ raised' = FALSE
    /\ UNCHANGED << mounted, is_sensitive, engineMayThrow, isActive, screenFocused, commentsOpen,
                    shareOpen, otherOpen, isPlaying, showDurationControl,
                    playSensitive, wasActiveRef, enginePlaying, currentTime,
                    touching, ackedInActivation, ackedSinceReset,
                    toggledInActivation >>

\* The play/pause button of the revealed controls.
togglePlayPause ==
    /\ UNCHANGED << feedVars, modalVars, utilCall, timelineIsControlled, engagementVars >>
    /\ mounted /\ ~GateRendered /\ showControls
    /\ isMountedRef
    /\ manualControlRef' = TRUE
    /\ \E f \in CommandFaults :
         IF f = "command"
         THEN UNCHANGED << isPlaying, enginePlaying >>
         ELSE /\ enginePlaying' = ~isPlaying
              /\ isPlaying' = ~isPlaying
    /\ raised' = FALSE
    /\ toggledInActivation' = TRUE
    /\ UNCHANGED << mounted, is_sensitive, engineMayThrow, isActive, screenFocused, commentsOpen,
                    shareOpen, otherOpen, showControls, showDurationControl,
                    playSensitive, wasActiveRef, controlsTimeoutRef,
                    pendingTimers, currentTime, touching, ackedInActivation,
                    ackedSinceReset >>

\* Scrub gesture start on the timeline. No try/catch: a failing pause()
\* escapes, and so does the call of the scroll-lock callback when the prop
\* is not passed.
OnTimelineTouchStart ==
    /\ UNCHANGED << feedVars, modalVars, utilCall, engagementVars >>
    /\ mounted /\ ~GateRendered /\ ~touching
    /\ touching' = TRUE
    /\ showControls' = FALSE
    /\ showDurationControl' = TRUE
    /\ \E f \in CommandFaults :
         IF f = "command"
         THEN /\ UNCHANGED << isPlaying, enginePlaying >>
              /\ raised' = TRUE
              /\ UNCHANGED timelineIsControlled
         ELSE /\ enginePlaying' = FALSE
              /\ isPlaying' = FALSE
              /\ raised' = ~onTimelineControlledDefined
              /\ timelineIsControlled' = IF onTimelineControlledDefined
                                         THEN TRUE ELSE timelineIsControlled
    /\ UNCHANGED << mounted, is_sensitive, engineMayThrow, isActive, screenFocused, commentsOpen,
                    shareOpen, otherOpen, playSensitive, manualControlRef,
                    wasActiveRef, controlsTimeoutRef, pendingTimers, currentTime,
                    ackedInActivation, ackedSinceReset, toggledInActivation >>

\* event.nativeEvent.pageX of a touch on the window, whose width is
\* SCREEN_WIDTH.
TouchPositions == 0..ScreenWidth

\* Variant that does not scale the touch position by the screen width.
ScrubPosition_Unscaled(pageX) == Duration * pageX

\* player.duration * event.nativeEvent.pageX / SCREEN_WIDTH
ScrubPosition(pageX) == (Duration * pageX) \div ScreenWidth

\* player.currentTime * 100 / player.duration
Progression(time) == (time * 100) \div Duration

\* Scrub gesture move: seek proportionally to pageX, then play();pause()
\* to preview the frame.
onTimelineTouchMove(pageX, f) ==
    /\ UNCHANGED << feedVars, modalVars, utilCall, timelineIsControlled, engagementVars >>
    /\ mounted /\ ~GateRendered /\ touching
    /\ IF f = "seek"
       THEN /\ UNCHANGED << currentTime, enginePlaying >>
            /\ raised' = TRUE
       ELSE /\ currentTime' = ScrubPosition(pageX)
            /\ IF f = "command"
               THEN UNCHANGED enginePlaying /\ raised' = TRUE
               ELSE enginePlaying' = FALSE /\ raised' = FALSE
    /\ UNCHANGED << mounted, is_sensitive, engineMayThrow, isActive, screenFocused, commentsOpen,
                    shareOpen, otherOpen, isPlaying, showControls,
                    showDurationControl, playSensitive, manualControlRef,
                    wasActiveRef, controlsTimeoutRef, pendingTimers, touching,
                    ackedInActivation, ackedSinceReset, toggledInActivation >>

\* Scrub gesture end.
OnTimelineTouchEnd ==
    /\ UNCHANGED << feedVars, modalVars, utilCall, engagementVars >>
    /\ mounted /\ ~GateRendered /\ touching
    /\ touching' = FALSE
    /\ showDurationControl' = FALSE
    /\ \E f \in CommandFaults :
         IF f = "command"
         THEN /\ UNCHANGED << isPlaying, enginePlaying >>
              /\ raised' = TRUE
              /\ UNCHANGED timelineIsControlled
         ELSE /\ enginePlaying' = TRUE
              /\ isPlaying' = TRUE
              /\ raised' = ~onTimelineControlledDefined
              /\ timelineIsControlled' = IF onTimelineControlledDefined
                                         THEN FALSE ELSE timelineIsControlled
    /\ UNCHANGED << mounted, is_sensitive, engineMayThrow, isActive, screenFocused, commentsOpen,
                    shareOpen, otherOpen, showControls, playSensitive,
                    manualControlRef, wasActiveRef, controlsTimeoutRef,
                    pendingTimers, currentTime, ackedInActivation,
                    ackedSinceReset, toggledInActivation >>

\* The engine plays on: the position advances and wraps (player.loop).
EngineAdvance ==
    /\ UNCHANGED << feedVars, modalVars, utilCall, timelineIsControlled, engagementVars >>
    /\ mounted /\ enginePlaying
    /\ currentTime' = IF currentTime >= Duration THEN 0 ELSE currentTime + 1
    /\ raised' = FALSE
    /\ UNCHANGED << mounted, is_sensitive, engineMayThrow, isActive, screenFocused, commentsOpen,
                    shareOpen, otherOpen, isPlaying, showControls,
                    showDurationControl, playSensitive, manualControlRef,
                    wasActiveRef, controlsTimeoutRef, pendingTimers,
                    enginePlaying, touching, ackedInActivation, ackedSinceReset,
                    toggledInActivation >>

PlayerNext ==
    \/ Mount
    \/ Unmount
    \/ ActiveChanged
    \/ FocusChanged
    \/ ModalChanged
    \/ handleViewSensitiveContent
    \/ handleScreenPress
    \/ controlsTimeout
    \/ togglePlayPause
    \/ OnTimelineTouchStart
    \/ \E pageX \in TouchPositions, f \in Faults : onTimelineTouchMove(pageX, f)
    \/ OnTimelineTouchEnd
    \/ EngineAdvance

\* The engine accepts every command.
PlayerInit == PlayerStart /\ engineMayThrow = FALSE

\* The engine may reject a command with an exception.
PlayerFaultsInit == PlayerStart /\ engineMayThrow \in BOOLEAN

SpecPlayer == PlayerInit /\ [][PlayerNext]_vars

SpecPlayerFaults == PlayerFaultsInit /\ [][PlayerNext]_vars

\* The auto-hide timer is a setTimeout: once armed it fires unless it is
\* cleared first.
SpecPlayerFair == PlayerInit /\ [][PlayerNext]_vars /\ WF_vars(controlsTimeout)

\* ==================================================== engagement actions
\* What a like or bookmark step leaves alone.
EngagementStep ==
    /\ raised' = FALSE
    /\ UNCHANGED << feedVars, modalVars, utilCall, timelineIsControlled, screenFocused,
                    has_liked, has_bookmarked >>
    /\ UNCHANGED << mounted, is_sensitive, engineMayThrow, isActive,
                    commentsOpen, shareOpen, otherOpen, isPlaying, showControls,
                    showDurationControl, playSensitive, manualControlRef,
                    wasActiveRef, controlsTimeoutRef, pendingTimers,
                    enginePlaying, currentTime, touching, ackedInActivation,
                    ackedSinceReset, toggledInActivation >>

\* The action buttons are rendered (no gate, no scrub overlay).
ActionsRendered == mounted /\ ~GateRendered /\ ~showDurationControl

\* handleLike: optimistic toggle, then onLike -> videoLikeMutation.mutate.
handleLike ==
    /\ ActionsRendered /\ likeTaps < MaxTaps /\ pendingMutations < MaxTaps
    /\ isLiked' = ~isLiked
    /\ likeTaps' = likeTaps + 1
    /\ pendingMutations' = pendingMutations + 1
    /\ UNCHANGED << isBookmarked, bookmarkTaps >>
    /\ EngagementStep

\* handleBookmark: optimistic toggle, then onBookmark -> mutate.
handleBookmark ==
    /\ ActionsRendered /\ bookmarkTaps < MaxTaps /\ pendingMutations < MaxTaps
    /\ isBookmarked' = ~isBookmarked
    /\ bookmarkTaps' = bookmarkTaps + 1
    /\ pendingMutations' = pendingMutations + 1
    /\ UNCHANGED << isLiked, likeTaps >>
    /\ EngagementStep

\* A like or bookmark mutation succeeds or fails: onSuccess and onError
\* are empty.
MutationSettled ==
    /\ pendingMutations > 0
    /\ \E outcome \in {"success", "error"} :
         pendingMutations' = pendingMutations - 1
    /\ UNCHANGED << isLiked, isBookmarked, likeTaps, bookmarkTaps >>
    /\ EngagementStep

\* Displayed counters.
likesShown == ItemLikes + (IF isLiked /\ ~has_liked THEN 1 ELSE 0)
bookmarksShown == ItemBookmarks + (IF isBookmarked /\ ~has_bookmarked THEN 1 ELSE 0)

\* ========================================================= feed actions
\* Player-row variables while only the screen is under study.
PlayerIdle ==
    /\ mounted = FALSE /\ is_sensitive = FALSE /\ isActive = FALSE
    /\ engineMayThrow = FALSE
    /\ commentsOpen = FALSE /\ shareOpen = FALSE /\ otherOpen = FALSE
    /\ isPlaying = FALSE /\ showControls = FALSE /\ showDurationControl = FALSE
    /\ playSensitive = FALSE /\ manualControlRef = FALSE /\ wasActiveRef = FALSE
    /\ controlsTimeoutRef = "null" /\ pendingTimers = 0
    /\ enginePlaying = FALSE /\ currentTime = 0
    /\ touching = FALSE /\ raised = FALSE
    /\ ackedInActivation = FALSE /\ ackedSinceReset = FALSE
    /\ toggledInActivation = FALSE

\* First render of LoopsFeed (activeTab = defaultFeed) or of ProfileFeed
\* (the query is disabled, and stays idle, without profileId and id).
FeedInit ==
    /\ utilCall = NoCall
    /\ PlayerIdle
    /\ EngagementIdle
    /\ ModalsIdle
    /\ screen \in {"feed", "profile"}
    /\ screenMounted = TRUE /\ screenFocused = TRUE
    /\ activeTab \in (IF screen = "feed" THEN Tabs ELSE {"forYou"})
    /\ currentIndex = 0
    /\ currentVideoRef = Null /\ watchStartTimeRef = 0
    /\ appConfig = "loading"
    /\ hideForYouFeed \in (IF screen = "feed" THEN BOOLEAN ELSE {FALSE})
    /\ dataLoaded = FALSE /\ itemCount = 0 /\ hasNextPage = FALSE
    /\ fetchStatus \in (IF screen = "feed" THEN {"fetching"} ELSE {"fetching", "idle"})
    /\ refreshFetches = 0
    /\ scrollOffset = 0 /\ viewableReported = << >>
    /\ now = TickMs
    /\ lastOp = "none" /\ viewableEvent = NoEvent
    /\ emitted = << >> /\ issued = << >>

Quiet == viewableEvent' = NoEvent /\ emitted' = << >> /\ issued' = << >>

\* Time passes.
Tick ==
    /\ screenMounted /\ now < MaxTicks * TickMs
    /\ now' = now + TickMs
    /\ lastOp' = "tick" /\ Quiet
    /\ UNCHANGED << playerVars, modalVars, utilCall, timelineIsControlled, engagementVars,
                    screenFocused, screen, screenMounted, activeTab,
                    currentIndex, currentVideoRef, watchStartTimeRef, appConfig,
                    hideForYouFeed, dataLoaded, itemCount, hasNextPage,
                    fetchStatus, refreshFetches, scrollOffset, viewableReported >>

\* The fetch in flight resolves: a first page or refetch replaces the data,
\* a next page is appended to it.
FetchSucceeded ==
    /\ screenMounted /\ isFetching
    /\ \E n \in 0..MaxItems, more \in BOOLEAN :
         /\ isFetchingNextPage => n >= itemCount
         /\ dataLoaded' = TRUE
         /\ itemCount' = n
         /\ hasNextPage' = more
         /\ fetchStatus' = "idle" /\ refreshFetches' = 0
         /\ ListAfter(activeTab, TRUE, n, more, "idle", scrollOffset)
    /\ lastOp' = "fetched" /\ Quiet
    /\ UNCHANGED << playerVars, modalVars, utilCall, timelineIsControlled, engagementVars,
                    screenFocused, screen, screenMounted, activeTab,
                    currentIndex, currentVideoRef, watchStartTimeRef, appConfig,
                    hideForYouFeed, now >>

\* The fetch in flight fails: the data loaded so far stays.
FetchFailed ==
    /\ screenMounted /\ isFetching
    /\ fetchStatus' = "idle" /\ refreshFetches' = 0
    /\ ListAfter(activeTab, dataLoaded, itemCount, hasNextPage, "idle", scrollOffset)
    /\ lastOp' = "fetchFailed" /\ Quiet
    /\ UNCHANGED << playerVars, modalVars, utilCall, timelineIsControlled, engagementVars,
                    screenFocused, screen, screenMounted, activeTab,
                    currentIndex, currentVideoRef, watchStartTimeRef, appConfig,
                    hideForYouFeed, dataLoaded, itemCount, hasNextPage, now >>

\* Query states a key can be found in when the screen starts observing it:
\* nothing cached (the first page is fetched) or cached pages.
CacheStates ==
    { c \in [loaded : BOOLEAN, n : 0..MaxItems, more : BOOLEAN,
             status : {"idle", "fetching", "paginating"}] :
        ~c.loaded => (c.n = 0 /\ ~c.more /\ c.status = "fetching") }

\* A render with a new activeTab: the query key changes, the cleanups of
\* the effects that depend on recordVideoImpression run with the closure of
\* the previous render (the previous activeTab), the focus effect re-runs.
ChangeTab(t, offset) ==
    /\ activeTab' = t
    /\ \E c \in CacheStates :
         /\ dataLoaded' = c.loaded
         /\ itemCount' = c.n
         /\ hasNextPage' = c.more
         /\ fetchStatus' = c.status /\ refreshFetches' = 0
         /\ ListAfter(t, c.loaded, c.n, c.more, c.status, offset)
    /\ emitted' = UnmountEffectCleanup(activeTab)
                  \o (IF screenFocused THEN FocusEffectCleanup(activeTab) ELSE << >>)

\* The fallback effect (deps: isConfigLoading, appConfig, forYouEnabled,
\* activeTab), for the configuration value cfg.
FallbackApplies(cfg) ==
    /\ cfg \in {"fyfOn", "fyfOff"}
    /\ ~(cfg = "fyfOn" /\ ~hideForYouFeed)
    /\ activeTab = "forYou"

\* The configuration query settles; the fallback effect runs.
ConfigSettled ==
    /\ screen = "feed" /\ screenMounted /\ isConfigLoading
    /\ \E cfg \in {"failed", "fyfOn", "fyfOff"} :
         /\ appConfig' = cfg
         /\ IF FallbackApplies(cfg)
            THEN ChangeTab("local", scrollOffset)
            ELSE /\ emitted' = << >>
                 /\ UNCHANGED << activeTab, dataLoaded, itemCount, hasNextPage,
                                 fetchStatus, refreshFetches, scrollOffset, viewableReported >>
    /\ lastOp' = "config" /\ viewableEvent' = NoEvent /\ issued' = << >>
    /\ UNCHANGED << playerVars, modalVars, utilCall, timelineIsControlled, engagementVars,
                    screenFocused, screen, screenMounted,
                    currentIndex, currentVideoRef, watchStartTimeRef,
                    hideForYouFeed, now >>

\* A tab of the header is pressed (the For You tab is rendered only when
\* forYouEnabled; the loading view has no header).
TabPress ==
    /\ screen = "feed" /\ screenMounted /\ screenFocused
    /\ ~isLoading /\ ~ReportPending
    /\ \E t \in Tabs :
         /\ t = "forYou" => forYouEnabled
         /\ IF t = activeTab
            THEN /\ scrollOffset' = 0
                 /\ emitted' = << >>
                 /\ UNCHANGED << activeTab, dataLoaded, itemCount, hasNextPage,
                                 fetchStatus, refreshFetches, viewableReported >>
            ELSE ChangeTab(t, 0)
    /\ currentIndex' = 0
    /\ lastOp' = "tab" /\ viewableEvent' = NoEvent /\ issued' = << >>
    /\ UNCHANGED << playerVars, modalVars, utilCall, timelineIsControlled, engagementVars,
                    screenFocused, screen, screenMounted,
                    currentVideoRef, watchStartTimeRef, appConfig,
                    hideForYouFeed, now >>

\* onViewableItemsChanged({ viewableItems }) of the mounted screen, as created
\* by the latest render (deps: videos, recordVideoImpression).
\* What one run of onViewableItemsChanged does, in program order.
CallbackEffects(viewableItems) ==
    IF Len(viewableItems) = 0 THEN << >>
    ELSE IF screen # "feed" THEN << "setCurrentIndex" >>
    ELSE (IF ImpressionIfWatching(activeTab) # << >>
          THEN << "recordImpression" >> ELSE << >>)
            \o << "setCurrentIndex", "currentVideoRef", "watchStartTimeRef" >>

onViewableItemsChanged(viewableItems) ==
    /\ viewableEvent' = [called |-> TRUE, viewableItems |-> viewableItems,
                         effects |-> CallbackEffects(viewableItems)]
    /\ IF Len(viewableItems) > 0
       THEN LET newIndex == FirstViewableIndex(viewableItems)
            IN  /\ currentIndex' = newIndex
                /\ IF screen = "feed"
                   THEN /\ emitted' = ImpressionIfWatching(activeTab)
                        /\ currentVideoRef' = VideoAt(videos, newIndex)
                        /\ watchStartTimeRef' = now
                   ELSE /\ emitted' = << >>
                        /\ UNCHANGED << currentVideoRef, watchStartTimeRef >>
       ELSE /\ emitted' = << >>
            /\ UNCHANGED << currentIndex, currentVideoRef, watchStartTimeRef >>

\* FlatList prop scrollEnabled.
scrollEnabled == ~timelineIsControlled

\* The user drags the list by half a row; the list reports a changed
\* visible set while it handles the scroll event.
UserScroll ==
    /\ ListMounted /\ screenFocused /\ ~ReportPending /\ scrollEnabled
    /\ \E o \in {scrollOffset - 1, scrollOffset + 1} :
         /\ o >= 0 /\ o <= MaxOffset(Len(videosWithEnd))
         /\ scrollOffset' = o
         /\ LET v == ViewableAt(o, videosWithEnd)
            IN  IF ItemsOf(v) # viewableReported
                THEN /\ viewableReported' = ItemsOf(v)
                     /\ onViewableItemsChanged(v)
                ELSE /\ viewableEvent' = NoEvent /\ emitted' = << >>
                     /\ UNCHANGED << viewableReported, currentIndex,
                                     currentVideoRef, watchStartTimeRef >>
    /\ lastOp' = "scroll" /\ issued' = << >>
    /\ UNCHANGED << playerVars, modalVars, utilCall, timelineIsControlled, engagementVars,
                    screenFocused, screen, screenMounted, activeTab,
                    appConfig, hideForYouFeed, dataLoaded, itemCount,
                    hasNextPage, fetchStatus, refreshFetches, now >>

\* The list reports the visible set after its content, its mounting or a
\* programmatic scroll changed it.
FlatListReport ==
    /\ ReportPending
    /\ viewableReported' = ItemsOf(ViewableNow)
    /\ onViewableItemsChanged(ViewableNow)
    /\ lastOp' = "report" /\ issued' = << >>
    /\ UNCHANGED << playerVars, modalVars, utilCall, timelineIsControlled, engagementVars,
                    screenFocused, screen, screenMounted, activeTab,
                    appConfig, hideForYouFeed, dataLoaded, itemCount,
                    hasNextPage, fetchStatus, refreshFetches, scrollOffset, now >>

\* A guard that does not look at the fetch in flight.
ShouldFetchNextPage_CursorOnly == hasNextPage

\* The guard of handleEndReached.
ShouldFetchNextPage == hasNextPage /\ ~isFetchingNextPage

\* onEndReached (onEndReachedThreshold: 0.5): the list is within half a
\* viewport of its end.
handleEndReached ==
    /\ ListMounted /\ ~ReportPending
    /\ scrollOffset + 1 >= MaxOffset(Len(videosWithEnd))
    /\ IF ShouldFetchNextPage
       THEN /\ fetchStatus' = "paginating" /\ refreshFetches' = 0
            /\ issued' = << "fetchNextPage" >>
       ELSE /\ issued' = << >>
            /\ UNCHANGED << fetchStatus, refreshFetches >>
    /\ lastOp' = "endReached" /\ viewableEvent' = NoEvent /\ emitted' = << >>
    /\ UNCHANGED << playerVars, modalVars, utilCall, timelineIsControlled, engagementVars,
                    screenFocused, screen, screenMounted, activeTab,
                    currentIndex, currentVideoRef, watchStartTimeRef, appConfig,
                    hideForYouFeed, dataLoaded, itemCount, hasNextPage,
                    scrollOffset, viewableReported, now >>

\* onRefresh: scrollToOffset({ offset: 0 }) and refetch().
onRefresh ==
    /\ fetchStatus' = "fetching"
    /\ refreshFetches' = IF refreshFetches < MaxRefetches
                         THEN refreshFetches + 1 ELSE refreshFetches
    /\ issued' = << "refetch" >>
    /\ ListAfter(activeTab, dataLoaded, itemCount, hasNextPage, "fetching", 0)
    /\ lastOp' = "onRefresh"

\* The user pulls the list down at its top. The RefreshControl calls
\* onRefresh unless it is already refreshing (prop refreshing).
PullToRefresh ==
    /\ screen = "feed" /\ ListMounted /\ screenFocused /\ ~ReportPending
    /\ scrollOffset = 0
    /\ IF refreshing
       THEN /\ lastOp' = "pull" /\ issued' = << >>
            /\ UNCHANGED << fetchStatus, refreshFetches, scrollOffset, viewableReported >>
       ELSE onRefresh
    /\ viewableEvent' = NoEvent /\ emitted' = << >>
    /\ UNCHANGED << playerVars, modalVars, utilCall, timelineIsControlled, engagementVars,
                    screenFocused, screen, screenMounted, activeTab,
                    currentIndex, currentVideoRef, watchStartTimeRef, appConfig,
                    hideForYouFeed, dataLoaded, itemCount, hasNextPage, now >>

\* The screen loses focus: cleanups of both useFocusEffect callbacks.
Blur ==
    /\ screenMounted /\ screenFocused
    /\ screenFocused' = FALSE
    /\ emitted' = IF screen = "feed" THEN FocusEffectCleanup(activeTab) ELSE << >>
    /\ lastOp' = "blur" /\ viewableEvent' = NoEvent /\ issued' = << >>
    /\ UNCHANGED << playerVars, modalVars, utilCall, timelineIsControlled, engagementVars,
                    screen, screenMounted, activeTab, currentIndex,
                    currentVideoRef, watchStartTimeRef, appConfig, hideForYouFeed,
                    dataLoaded, itemCount, hasNextPage, fetchStatus, refreshFetches,
                    scrollOffset, viewableReported, now >>

\* The screen regains focus.
Focus ==
    /\ screenMounted /\ ~screenFocused
    /\ screenFocused' = TRUE
    /\ lastOp' = "focus" /\ Quiet
    /\ UNCHANGED << playerVars, modalVars, utilCall, timelineIsControlled, engagementVars,
                    screen, screenMounted, activeTab, currentIndex,
                    currentVideoRef, watchStartTimeRef, appConfig, hideForYouFeed,
                    dataLoaded, itemCount, hasNextPage, fetchStatus, refreshFetches,
                    scrollOffset, viewableReported, now >>

\* The screen unmounts: every effect cleanup runs (the focus effect's only
\* when the screen is focused).
ScreenUnmount ==
    /\ screenMounted
    /\ screenMounted' = FALSE
    /\ emitted' = IF screen = "feed"
                  THEN UnmountEffectCleanup(activeTab)
                       \o (IF screenFocused THEN FocusEffectCleanup(activeTab) ELSE << >>)
                  ELSE << >>
    /\ scrollOffset' = 0 /\ viewableReported' = << >>
    /\ lastOp' = "unmount" /\ viewableEvent' = NoEvent /\ issued' = << >>
    /\ UNCHANGED << playerVars, modalVars, utilCall, timelineIsControlled, engagementVars,
                    screenFocused, screen, activeTab, currentIndex,
                    currentVideoRef, watchStartTimeRef, appConfig, hideForYouFeed,
                    dataLoaded, itemCount, hasNextPage, fetchStatus, refreshFetches, now >>

FeedNext ==
    \/ Tick
    \/ FetchSucceeded
    \/ FetchFailed
    \/ ConfigSettled
    \/ TabPress
    \/ UserScroll
    \/ FlatListReport
    \/ handleEndReached
    \/ PullToRefresh
    \/ Blur
    \/ Focus
    \/ ScreenUnmount

SpecFeed == FeedInit /\ [][FeedNext]_vars

\* ======================================================= modal handlers
\* item.id of a row.
ItemId(item) == item

\* selectedVideo?.id === item.id
IsSelected(item) == selectedVideo # Null /\ ItemId(selectedVideo) = ItemId(item)

\* Variant that ignores which video is selected.
commentsOpenOf_AnyItem(item) == showComments

\* Props commentsOpen / shareOpen / otherOpen that renderItem passes to the
\* player of item.
commentsOpenOf(item) == showComments /\ IsSelected(item)
shareOpenOf(item) == showShare /\ IsSelected(item)
otherOpenOf(item) == showOther /\ IsSelected(item)

\* Items whose player is on screen, so that its buttons can be pressed.
PressableItems ==
    IF ListMounted
    THEN { ViewableNow[i].item : i \in 1..Len(ViewableNow) } \ { EndMarker }
    ELSE { }

\* What a modal handler leaves alone.
ScreenStep(op) ==
    /\ lastOp' = op /\ Quiet
    /\ UNCHANGED << playerVars, engagementVars, timelineIsControlled,
                    screenFocused, screen, screenMounted, activeTab,
                    currentIndex, currentVideoRef, watchStartTimeRef, appConfig,
                    hideForYouFeed, dataLoaded, itemCount, hasNextPage,
                    fetchStatus, refreshFetches, scrollOffset, viewableReported,
                    now, utilCall >>

\* What a handler that opens or closes a modal leaves alone.
ModalStep(op) == ScreenStep(op) /\ UNCHANGED videoPlaybackRates

\* onComment(item) of a player (comment button, caption 'more').
handleComment(video) ==
    /\ video \in PressableItems
    /\ selectedVideo' = video
    /\ showComments' = TRUE
    /\ UNCHANGED << showShare, showOther >>
    /\ ModalStep("comment")

\* onShare(item) of a player.
handleShare(video) ==
    /\ video \in PressableItems
    /\ selectedVideo' = video
    /\ showShare' = TRUE
    /\ UNCHANGED << showComments, showOther >>
    /\ ModalStep("share")

\* onOther(item) of a player.
handleOther(video) ==
    /\ video \in PressableItems
    /\ selectedVideo' = video
    /\ showOther' = TRUE
    /\ UNCHANGED << showComments, showShare >>
    /\ ModalStep("other")

\* onClose of the CommentsModal.
CloseComments ==
    /\ screenMounted /\ ~isLoading /\ showComments
    /\ showComments' = FALSE
    /\ UNCHANGED << selectedVideo, showShare, showOther >>
    /\ ModalStep("closeComments")

\* onClose of the ShareModal.
CloseShare ==
    /\ screenMounted /\ ~isLoading /\ showShare
    /\ showShare' = FALSE
    /\ UNCHANGED << selectedVideo, showComments, showOther >>
    /\ ModalStep("closeShare")

\* onClose of the OtherModal.
CloseOther ==
    /\ screenMounted /\ ~isLoading /\ showOther
    /\ showOther' = FALSE
    /\ UNCHANGED << selectedVideo, showComments, showShare >>
    /\ ModalStep("closeOther")

\* onNavigate of a player (username, hashtag, mention) or of the
\* CommentsModal.
handleNavigate ==
    /\ PressableItems # { } \/ (screenMounted /\ ~isLoading /\ showComments)
    /\ showComments' = FALSE
    /\ showShare' = FALSE
    /\ showOther' = FALSE
    /\ UNCHANGED selectedVideo
    /\ ModalStep("navigate")

\* { ...prev, [id]: speed }
WithRate(prev, id, speed) ==
    [k \in DOMAIN prev \cup {id} |-> IF k = id THEN speed ELSE prev[k]]

\* Variant that gives the speed to every item that has an entry.
handlePlaybackSpeedChange_AllRows(speed) ==
    /\ screenMounted /\ ~isLoading
    /\ videoPlaybackRates' =
          IF selectedVideo # Null
          THEN [k \in DOMAIN videoPlaybackRates \cup {ItemId(selectedVideo)}
                  |-> speed]
          ELSE videoPlaybackRates
    /\ UNCHANGED << selectedVideo, showComments, showShare, showOther >>
    /\ ScreenStep("playbackSpeed")

\* onPlaybackSpeedChange of the OtherModal.
handlePlaybackSpeedChange(speed) ==
    /\ screenMounted /\ ~isLoading
    /\ videoPlaybackRates' =
          IF selectedVideo # Null
          THEN WithRate(videoPlaybackRates, ItemId(selectedVideo), speed)
          ELSE videoPlaybackRates
    /\ UNCHANGED << selectedVideo, showComments, showShare, showOther >>
    /\ ScreenStep("playbackSpeed")

\* playbackRate a player derives from the mapping it is given.
playbackRate(item) ==
    IF ItemId(item) \in DOMAIN videoPlaybackRates
    THEN videoPlaybackRates[ItemId(item)] ELSE "1.0"

ModalsNext ==
    \/ FetchSucceeded
    \/ UserScroll
    \/ FlatListReport
    \/ \E video \in PressableItems : handleComment(video)
    \/ \E video \in PressableItems : handleShare(video)
    \/ \E video \in PressableItems : handleOther(video)
    \/ CloseComments
    \/ CloseShare
    \/ CloseOther
    \/ handleNavigate
    \/ \E speed \in Speeds : handlePlaybackSpeedChange(speed)

SpecModals == FeedInit /\ [][ModalsNext]_vars

\* ------------------------------------------------------ player properties
Playing == isPlaying \/ enginePlaying

AutoEventStep ==
    \/ screenFocused' # screenFocused
    \/ commentsOpen' # commentsOpen
    \/ shareOpen' # shareOpen
    \/ otherOpen' # otherOpen

C2_ManualSuppressesAuto ==
    [][(mounted /\ isActive /\ toggledInActivation /\ AutoEventStep)
         => (isPlaying' = isPlaying /\ enginePlaying' = enginePlaying)]_vars

\* -------------------------------------------------------- feed properties
IsVideo(v) == v # Null /\ v # Undefined
IndicesOf(viewableItems) == { viewableItems[i].index : i \in 1..Len(viewableItems) }
Reported(ev) == ev.called /\ Len(ev.viewableItems) > 0

\* C3: after every visibility-callback event that reports at least one
\* visible row, currentIndex is the lowest index among the rows of that
\* event, on the main feed screen and on the profile feed screen.
C3_PointerIsLowestVisible ==
    Reported(viewableEvent) =>
        /\ currentIndex \in IndicesOf(viewableEvent.viewableItems)
        /\ \A i \in IndicesOf(viewableEvent.viewableItems) : currentIndex <= i

\* An event with two visible rows has just set the pointer on the profile screen.
C3_Witness ==
    /\ screen = "profile"
    /\ viewableEvent.called /\ Len(viewableEvent.viewableItems) = 2
    /\ currentIndex = viewableEvent.viewableItems[1].index
    /\ currentIndex < viewableEvent.viewableItems[2].index

\* C4: handleEndReached issues a next-page fetch only when a further cursor
\* exists and no next-page fetch is in flight, so a next-page fetch is never
\* issued on top of an outstanding one nor after the terminal page.
C4_NextPageOnlyWhenDue ==
    [][(issued' = << "fetchNextPage" >>) =>
          (hasNextPage /\ fetchStatus # "paginating")]_vars

\* handleEndReached has just issued the one outstanding next-page fetch.
C4_Witness ==
    /\ lastOp = "endReached" /\ issued = << "fetchNextPage" >>
    /\ fetchStatus = "paginating" /\ hasNextPage

\* C5: after onRefresh the active-item pointer is 0 and the list is at its
\* top, whatever they were before.
C5_RefreshResetsPointer ==
    lastOp = "onRefresh" => (currentIndex = 0 /\ scrollOffset = 0)

C7_ImpressionOnlyWhenDue ==
    [][(emitted' # << >>) =>
          /\ activeTab = "forYou"
          /\ IsVideo(currentVideoRef)
          /\ watchStartTimeRef # 0
          /\ now - watchStartTimeRef >= 1000
          /\ \A i \in 1..Len(emitted') :
                /\ emitted'[i].id = currentVideoRef
                /\ emitted'[i].duration = now - watchStartTimeRef]_vars

\* A visibility event in the forYou feed has just emitted the impression of
\* the previous item.
C7_Witness ==
    /\ lastOp \in {"scroll", "report"} /\ viewableEvent.called
    /\ activeTab = "forYou" /\ Len(emitted) = 1
    /\ emitted[1].duration >= 1000

C9_SameIndexIsSilent ==
    [][(/\ screen = "feed" /\ activeTab = "forYou"
        /\ IsVideo(currentVideoRef) /\ watchStartTimeRef # 0
        /\ Reported(viewableEvent')
        /\ FirstViewableIndex(viewableEvent'.viewableItems) = currentIndex)
       => (emitted' = << >> /\ watchStartTimeRef' = watchStartTimeRef)]_vars

\* C10: when the forYou feed screen blurs or unmounts while an item is
\* tracked as active and its watch interval has run for at least 1 second,
\* an impression for that item is emitted.
C10_FinalImpressionEmitted ==
    [][(/\ lastOp' \in {"blur", "unmount"}
        /\ screen = "feed" /\ activeTab = "forYou"
        /\ IsVideo(currentVideoRef) /\ watchStartTimeRef # 0
        /\ now - watchStartTimeRef >= 1000)
       => \E i \in 1..Len(emitted') :
             /\ emitted'[i].id = currentVideoRef
             /\ emitted'[i].duration = now - watchStartTimeRef]_vars

\* The screen has just lost focus and emitted the impression of its item.
C10_Witness ==
    /\ lastOp = "blur" /\ ~screenFocused
    /\ Len(emitted) = 1 /\ emitted[1].id = currentVideoRef

\* C11: whenever the personalized feed is disabled (configuration loading,
\* failed or not enabling it, or the hide flag set) the selected feed kind
\* of the main screen is not forYou.
C11_ForYouOnlyWhenEnabled ==
    (screen = "feed" /\ screenMounted /\ ~forYouEnabled) => activeTab # "forYou"

\* C12: the rendered list holds the end-of-feed row exactly when the feed
\* kind is forYou, no item is accumulated and there is no further page; the
\* row is then the only one and is rendered as the static message, and every
\* other row is rendered as a player.
C12_SentinelExactlyWhenEmptyForYou ==
    ListMounted =>
        LET rows == videosWithEnd
            hasSentinel == \E i \in 1..Len(rows) : rows[i] = EndMarker
        IN  /\ hasSentinel <=> (/\ screen = "feed" /\ activeTab = "forYou"
                                /\ (~dataLoaded \/ itemCount = 0)
                                /\ ~hasNextPage)
            /\ hasSentinel => rows = << EndMarker >>
            /\ \A i \in 1..Len(rows) :
                  (renderItem(rows[i]) = "endOfFeedMessage") <=> (rows[i] = EndMarker)
            /\ \A i \in 1..Len(rows) :
                  (renderItem(rows[i]) = "VideoPlayer") <=> IsVideo(rows[i]) /\ rows[i] # EndMarker

\* The forYou feed has loaded its terminal, empty page and shows the message.
C12_Witness ==
    /\ ListMounted /\ activeTab = "forYou" /\ dataLoaded /\ itemCount = 0
    /\ videosWithEnd = << EndMarker >>
    /\ renderItem(videosWithEnd[1]) = "endOfFeedMessage"

\* C13: every change of the selected feed kind, by a tab press or by the
\* fallback from forYou to local, leaves the pointer at 0 and the list at
\* its top.
C13_TabChangeResets ==
    [][(activeTab' # activeTab) => (currentIndex' = 0 /\ scrollOffset' = 0)]_vars

\* ------------------------------------------------------- modal properties
RowItems == { videosWithEnd[i] : i \in 1..Len(videosWithEnd) } \ { EndMarker }
ModalInputOn(item) == commentsOpenOf(item) \/ shareOpenOf(item) \/ otherOpenOf(item)

\* C14: after an item's comment, share or more-options action the selected
\* video is that item and the matching flag is true; at every moment the
\* commentsOpen / shareOpen / otherOpen input of a player is true only for
\* the item whose id is the selected video's id, hence for one item at most.
C14_ModalScopedToSelected ==
    /\ [](\A item \in RowItems :
            ModalInputOn(item) => (selectedVideo # Null /\ ItemId(item) = ItemId(selectedVideo)))
    /\ [](Cardinality({ item \in RowItems : ModalInputOn(item) }) <= 1)
    /\ [][\A video \in PressableItems :
            /\ handleComment(video) => (selectedVideo' = video /\ showComments')
            /\ handleShare(video) => (selectedVideo' = video /\ showShare')
            /\ handleOther(video) => (selectedVideo' = video /\ showOther')]_vars

\* The comments modal is open for the second row only.
C14_Witness ==
    /\ lastOp = "comment" /\ showComments /\ Len(videosWithEnd) = 2
    /\ commentsOpenOf(videosWithEnd[2]) /\ ~commentsOpenOf(videosWithEnd[1])

\* C15: onClose of any of the three modals, like handleNavigate, leaves
\* showComments, showShare and showOther all false.
C15_CloseClosesAll ==
    lastOp \in {"closeComments", "closeShare", "closeOther", "navigate"}
        => (~showComments /\ ~showShare /\ ~showOther)

\* ------------------------------------------------------ scrub properties
\* C16: from a scrub-gesture start until its end the feed screen holds the
\* scroll-lock signal and the list cannot be scrolled; outside a scrub the
\* signal is false and scrolling is enabled.
C16_ScrubLocksScroll ==
    /\ (mounted /\ touching) => (timelineIsControlled /\ ~scrollEnabled)
    /\ ~touching => (~timelineIsControlled /\ scrollEnabled)

\* C17: the scrub start pauses (engine paused, isPlaying false), the scrub
\* end resumes (engine playing, isPlaying true), and neither handler lets
\* an exception escape.
C17_ScrubPausesAndResumes ==
    [][/\ OnTimelineTouchStart => (~enginePlaying' /\ ~isPlaying' /\ ~raised')
       /\ OnTimelineTouchEnd => (enginePlaying' /\ isPlaying' /\ ~raised')]_vars

UtilStep(call) ==
    /\ utilCall = NoCall
    /\ utilCall' = call
    /\ UNCHANGED << playerVars, screenFocused, feedVars, modalVars,
                    timelineIsControlled, engagementVars >>

\* Texts are sequences of UTF-16 code units: "a" is a BMP character, "H" a
\* high surrogate, "L" a low surrogate and "U+2026" the ellipsis.
Texts == UNION { [1..n -> {"a", "H", "L"}] : n \in 0..MaxLen }

\* A limit is a finite number or NaN / Infinity.
Limits ==
    { [finite |-> TRUE, value |-> v] : v \in (0 - 1)..(MaxLen + 1) }
        \cup { [finite |-> FALSE, value |-> 0] }

\* opts?.suffix: not given, empty, or a suffix of the caller.
SuffixOpts ==
    { [given |-> FALSE, suffix |-> << >>], [given |-> TRUE, suffix |-> << >>],
      [given |-> TRUE, suffix |-> << "." >>] }

\* Variant that splits a string into UTF-16 code units.
toCodePoints_CodeUnits(str) == [i \in 1..Len(str) |-> << str[i] >>]

\* Array.from(str): one element per code point, a surrogate pair is one
\* element, a lone surrogate is an element of its own.
RECURSIVE toCodePoints(_)
toCodePoints(str) ==
    IF str = << >> THEN << >>
    ELSE IF Len(str) >= 2 /\ str[1] = "H" /\ str[2] = "L"
         THEN << << "H", "L" >> >> \o toCodePoints(SubSeq(str, 3, Len(str)))
         ELSE << << str[1] >> >> \o toCodePoints(Tail(str))

\* cp.join('')
RECURSIVE Join(_)
Join(cp) == IF cp = << >> THEN << >> ELSE Head(cp) \o Join(Tail(cp))

truncate(text, limit, opts) ==
    LET suffix == IF opts.given THEN opts.suffix ELSE << "U+2026" >>
        cp == toCodePoints(text)
    IN  IF ~limit.finite \/ limit.value <= 0 THEN suffix
        ELSE IF Len(cp) <= limit.value THEN text
        ELSE Join(SubSeq(cp, 1, limit.value)) \o suffix

CallTruncate ==
    \E text \in Texts, limit \in Limits, opts \in SuffixOpts :
        UtilStep([fn |-> "truncate", text |-> text, limit |-> limit,
                  opts |-> opts, result |-> truncate(text, limit, opts)])

\* Numbers given to prettyCount: |n| = m * 1000^k with 0 <= m < 10^6, so that
\* values beyond the last unit are covered with small integers; NaN,
\* Infinity and a string parseFloat cannot read are kinds of their own.
CountInputs ==
    LET Mantissas ==
            {0, 1, 9, 12, 999, 1000, 1001, 1235, 1499, 1500, 9949, 9950,
             13245, 15250, 99999, 999001, 999499, 999500, 999949, 999950,
             999999}
    IN  { [kind |-> "number", negative |-> neg, m |-> m, k |-> k] :
            neg \in BOOLEAN, m \in Mantissas, k \in 0..4 }
          \cup { [kind |-> kd, negative |-> FALSE, m |-> 0, k |-> 0] :
                   kd \in {"NaN", "Infinity", "unparsable"} }

\* opts: absent, or precision and rounding chosen by the caller.
CountOpts ==
    { [given |-> FALSE, precision |-> 0, rounding |-> "round"] }
      \cup { [given |-> TRUE, precision |-> p, rounding |-> r] :
               p \in 0..1, r \in {"round", "floor", "ceil"} }

RECURSIVE Pow(_, _)
Pow(base, n) == IF n = 0 THEN 1 ELSE base * Pow(base, n - 1)

\* Math.round / Math.floor / Math.ceil of num / den (num >= 0, den > 0).
Rounder(rounding, num, den) ==
    CASE rounding = "round" -> (2 * num + den) \div (2 * den)
      [] rounding = "floor" -> num \div den
      [] rounding = "ceil" -> (num + den - 1) \div den

\* value.toLocaleString with exactly precision fraction digits, for a value
\* given as scaled = value * 10^precision (en-US; no grouping below 1000).
Localized(scaled, precision) ==
    LET factor == Pow(10, precision)
    IN  IF precision = 0 THEN ToString(scaled)
        ELSE ToString(scaled \div factor) \o "." \o ToString(scaled % factor)

units == << "", "K", "M", "B", "T" >>

\* value * 10^precision rounded, for value = m * 1000^e; a value that is
\* 1000 or more is reported as 1000 * 10^precision.
RoundedScaled(m, e, precision, rounding) ==
    LET factor == Pow(10, precision)
    IN  IF e >= 1 THEN (IF m = 0 THEN 0 ELSE 1000 * factor)
        ELSE LET r == Rounder(rounding, m * factor, Pow(1000, 0 - e))
             IN  IF r >= 1000 * factor THEN 1000 * factor ELSE r

prettyCount(n, opts) ==
    IF n.kind # "number" THEN "0"
    ELSE
        LET sign == IF n.negative /\ n.m # 0 THEN "-" ELSE ""
            precision == IF opts.given THEN opts.precision ELSE 0
            rounding == IF opts.given THEN opts.rounding ELSE "round"
            factor == Pow(10, precision)
            \* while (value >= 1000 && unitIndex < units.length - 1)
            divisions == { u \in 0..4 :
                             \A j \in 0..(u - 1) :
                                 \/ (n.k - j >= 1 /\ n.m >= 1)
                                 \/ (n.k - j = 0 /\ n.m >= 1000) }
            unitIndex == CHOOSE u \in divisions : \A v \in divisions : v <= u
            rounded == RoundedScaled(n.m, n.k - unitIndex, precision, rounding)
            rescaled == rounded >= 1000 * factor /\ unitIndex < 4
            shown == IF rounded >= 1000 * factor THEN factor ELSE rounded
        IN  sign \o Localized(shown, precision)
                 \o units[(IF rescaled THEN unitIndex + 1 ELSE unitIndex) + 1]

CallPrettyCount ==
    \E n \in CountInputs, opts \in CountOpts :
        UtilStep([fn |-> "prettyCount", n |-> n, opts |-> opts,
                  result |-> prettyCount(n, opts)])

\* Instants are milliseconds counted from local midnight of 29 Dec 2024.
\* getFullYear / getMonth / getDate of an instant (one time zone, no
\* clock change in the days covered).
Calendar(ms) ==
    LET days == << [year |-> 2024, month |-> 11, date |-> 29],
                   [year |-> 2024, month |-> 11, date |-> 30],
                   [year |-> 2024, month |-> 11, date |-> 31],
                   [year |-> 2025, month |-> 0, date |-> 1],
                   [year |-> 2025, month |-> 0, date |-> 2],
                   [year |-> 2025, month |-> 0, date |-> 3] >>
    IN  days[(ms \div 86400000) + 1]

months ==
    << "Jan", "Feb", "Mar", "Apr", "May", "Jun",
       "Jul", "Aug", "Sep", "Oct", "Nov", "Dec" >>

\* Variant that always appends the year.
timeAgo_AlwaysYear(input, nowArg) ==
    LET s == IF nowArg - input < 0 THEN 0 ELSE (nowArg - input) \div 1000
        d == Calendar(input)
    IN  IF s \div 3600 < 24
        THEN IF s < 5 THEN "now"
             ELSE IF s < 60 THEN ToString(s) \o "s"
             ELSE IF s \div 60 < 60 THEN ToString(s \div 60) \o "m"
             ELSE ToString(s \div 3600) \o "h"
        ELSE months[d.month + 1] \o " " \o ToString(d.date)
                \o ", " \o ToString(d.year)

timeAgo(input, nowArg) ==
    LET diffMs == nowArg - input
        floored == diffMs \div 1000
        s == IF floored < 0 THEN 0 ELSE floored
        h == s \div 3600
        d == Calendar(input)
        ref == Calendar(nowArg)
    IN  IF h < 24
        THEN IF s < 5 THEN "now"
             ELSE IF s < 60 THEN ToString(s) \o "s"
             ELSE LET m == s \div 60
                  IN  IF m < 60 THEN ToString(m) \o "m"
                      ELSE ToString(h) \o "h"
        ELSE IF d.year = ref.year
             THEN months[d.month + 1] \o " " \o ToString(d.date)
             ELSE months[d.month + 1] \o " " \o ToString(d.date)
                     \o ", " \o ToString(d.year)

\* A reference instant and an input that lies a chosen number of
\* milliseconds before it (after it, when negative).
CallTimeAgo ==
    \E ref \in {259203000, 388800000, 475200500},
       age \in {0 - 5000, 0, 999, 4999, 5000, 59999, 60000, 90000, 3599999,
                3600000, 7200000, 86399999, 86400000, 90000000, 172800000,
                259200000} :
        UtilStep([fn |-> "timeAgo", input |-> ref - age, now |-> ref,
                  result |-> timeAgo(ref - age, ref)])

\* Variant without padding.
strPadLeft_NoPad(value) == ToString(value)

\* value.toString().padStart(2, '0')
strPadLeft(value) ==
    LET str == ToString(value)
    IN  IF Len(str) < 2 THEN "0" \o str ELSE str

\* totalSeconds is given in tenths of a second.
convertSecondsToTimeString(tenths) ==
    LET minutes == tenths \div 600
        seconds == (tenths - minutes * 600) \div 10
    IN  strPadLeft(minutes) \o ":" \o strPadLeft(seconds)

CallConvertSeconds ==
    \E tenths \in {0, 5, 99, 100, 200, 599, 600, 900, 5999, 6000, 35999,
                   36000, 59999, 60000, 60010, 360000} :
        UtilStep([fn |-> "convertSecondsToTimeString", tenths |-> tenths,
                  result |-> convertSecondsToTimeString(tenths)])

UtilsNext ==
    \/ CallTruncate
    \/ CallPrettyCount
    \/ CallTimeAgo
    \/ CallConvertSeconds

UtilsInit == FeedIdle /\ PlayerIdle /\ EngagementIdle /\ screenFocused = TRUE

SpecUtils == UtilsInit /\ [][UtilsNext]_vars

\* ------------------------------------------ engagement specification
EngagementInit ==
    /\ FeedIdle
    /\ PlayerIdle
    /\ screenFocused = TRUE
    /\ has_liked \in BOOLEAN /\ has_bookmarked \in BOOLEAN
    /\ isLiked = has_liked /\ isBookmarked = has_bookmarked
    /\ likeTaps = 0 /\ bookmarkTaps = 0 /\ pendingMutations = 0

EngagementNext ==
    \/ Mount
    \/ Unmount
    \/ handleLike
    \/ handleBookmark
    \/ MutationSettled
    \/ OnTimelineTouchStart
    \/ OnTimelineTouchEnd

SpecEngagement == EngagementInit /\ [][EngagementNext]_vars

\* ------------------------------------------------- engagement properties
Flipped(flag, taps) == IF taps % 2 = 1 THEN ~flag ELSE flag
Delta(now_on, originally_on) ==
    IF now_on /\ ~originally_on THEN 1
    ELSE IF ~now_on /\ originally_on THEN 0 - 1
    ELSE 0

\* C19: after any number of like (bookmark) taps the local flag is the
\* item's original flag flipped once per tap, and the displayed counter is
\* the original count +1 for a new like, -1 for a removed original like and
\* unchanged otherwise, whatever the mutations' outcomes.
C19_OptimisticCounters ==
    mounted =>
        /\ isLiked = Flipped(has_liked, likeTaps)
        /\ isBookmarked = Flipped(has_bookmarked, bookmarkTaps)
        /\ likesShown = ItemLikes + Delta(isLiked, has_liked)
        /\ bookmarksShown = ItemBookmarks + Delta(isBookmarked, has_bookmarked)

\* -------------------------------------------------- controls properties
ControlsShown == mounted /\ showControls

\* C20: a tap on the video reveals the controls and leaves the play/pause
\* state as it was; while the controls of a mounted item are shown their
\* auto-hide timer is armed, and shown controls are always hidden again.
C20_ControlsAutoHide ==
    /\ [][handleScreenPress =>
            /\ showControls' /\ controlsTimeoutRef' = "pending"
            /\ UNCHANGED << isPlaying, enginePlaying >>]_vars
    /\ [](ControlsShown => (controlsTimeoutRef = "pending" /\ pendingTimers = 1))
    /\ [][(ControlsShown /\ ~ControlsShown') =>
            (controlsTimeout \/ Unmount \/ OnTimelineTouchStart)]_vars
    /\ (ControlsShown ~> ~ControlsShown)

C20_Witness ==
    /\ mounted /\ ~showControls /\ controlsTimeoutRef = "fired"
    /\ isPlaying /\ enginePlaying

\* --------------------------------------------- playback-rate properties
\* C21: the playback-rate mapping changes only in the speed change of the
\* more-options modal; that step sets the entry of the selected video to the
\* chosen speed and keeps every other entry, and changes nothing when no
\* video is selected.
C21_RatesOnlyBySpeedChange ==
    [][/\ (videoPlaybackRates' # videoPlaybackRates) =>
            /\ lastOp' = "playbackSpeed"
            /\ selectedVideo # Null
       /\ \A speed \in Speeds : handlePlaybackSpeedChange(speed) =>
            IF selectedVideo = Null
            THEN videoPlaybackRates' = videoPlaybackRates
            ELSE /\ DOMAIN videoPlaybackRates' =
                      DOMAIN videoPlaybackRates \cup {ItemId(selectedVideo)}
                 /\ videoPlaybackRates'[ItemId(selectedVideo)] = speed
                 /\ \A k \in DOMAIN videoPlaybackRates :
                      k # ItemId(selectedVideo) =>
                        videoPlaybackRates'[k] = videoPlaybackRates[k]]_vars

C21_Witness ==
    /\ lastOp = "playbackSpeed" /\ selectedVideo # Null
    /\ playbackRate(selectedVideo) = "2.0"
    /\ \E k \in DOMAIN videoPlaybackRates :
         k # ItemId(selectedVideo) /\ videoPlaybackRates[k] = "0.5"

\* ------------------------------------------------ auto-pause properties
Blocked == ~screenFocused \/ commentsOpen \/ shareOpen \/ otherOpen
AutoControlled == mounted /\ isActive /\ ~manualControlRef

\* C22: on an active item that is not under manual control, a step in which
\* the screen loses focus or a modal opens for the item leaves it paused,
\* and such an item is not playing while the screen is unfocused or a modal
\* is open for it.
C22_BlockedMeansPaused ==
    /\ [][(AutoControlled /\ ~Blocked /\ Blocked' /\ AutoControlled') =>
            (~isPlaying' /\ ~enginePlaying')]_vars
    /\ []((AutoControlled /\ Blocked) => (~isPlaying /\ ~enginePlaying))

\* ---------------------------------------------------- utility properties
\* Code points of a text: its code units, a high surrogate followed by a
\* low surrogate counting once.
CodePointCount(text) ==
    Len(text) - Cardinality({ i \in 1..(Len(text) - 1) :
                                text[i] = "H" /\ text[i + 1] = "L" })

\* C23: truncate returns a text of at most limit code points unchanged,
\* otherwise its first limit code points (no surrogate pair split) followed
\* by the suffix (the ellipsis by default, nothing for an empty suffix), and
\* the suffix alone for a non-positive or non-finite limit.
C23_TruncateByCodePoints ==
    utilCall.fn = "truncate" =>
        LET text == utilCall.text
            limit == utilCall.limit
            suffix == IF utilCall.opts.given THEN utilCall.opts.suffix
                      ELSE << "U+2026" >>
        IN  IF ~limit.finite \/ limit.value <= 0
            THEN utilCall.result = suffix
            ELSE IF CodePointCount(text) <= limit.value
            THEN utilCall.result = text
            ELSE \E k \in 0..Len(text) :
                   /\ utilCall.result = SubSeq(text, 1, k) \o suffix
                   /\ CodePointCount(SubSeq(text, 1, k)) = limit.value
                   /\ ~(k >= 1 /\ k < Len(text)
                          /\ text[k] = "H" /\ text[k + 1] = "L")

C23_Witness ==
    /\ utilCall.fn = "truncate"
    /\ utilCall.text = << "a", "H", "L", "a" >>
    /\ utilCall.limit = [finite |-> TRUE, value |-> 2]
    /\ utilCall.result = << "a", "H", "L", "U+2026" >>

\* C24: for a finite n, prettyCount shows |n| scaled by a power of 1000 and
\* rounded at the precision, in the unit among none/K/M/B/T at which the
\* shown value is first below 1000 (a value rounded up to 1000 is shown as 1
\* of the next unit), with the sign in front; any other input gives "0".
C24_PrettyCountUnit ==
    utilCall.fn = "prettyCount" =>
        LET n == utilCall.n
            precision == IF utilCall.opts.given THEN utilCall.opts.precision ELSE 0
            rounding == IF utilCall.opts.given THEN utilCall.opts.rounding
                        ELSE "round"
            Shown(u) == RoundedScaled(n.m, n.k - u, precision, rounding)
            Below(u) == n.k - u <= 0 - 3 \/ Shown(u) < 1000 * Pow(10, precision)
        IN  IF n.kind # "number" THEN utilCall.result = "0"
            ELSE \E u \in 0..4 :
                   /\ Below(u) /\ \A v \in 0..(u - 1) : ~Below(v)
                   /\ utilCall.result =
                        (IF n.negative /\ n.m # 0 THEN "-" ELSE "")
                          \o Localized(Shown(u), precision) \o units[u + 1]

\* C25: with no options, prettyCount(13245) is "13K", prettyCount(999) is
\* "999" and prettyCount(1235000) is "1.2M".
C25_PrettyCountExamples ==
    (utilCall.fn = "prettyCount" /\ ~utilCall.opts.given
       /\ utilCall.n.kind = "number" /\ ~utilCall.n.negative) =>
        /\ (utilCall.n.m = 13245 /\ utilCall.n.k = 0) => utilCall.result = "13K"
        /\ (utilCall.n.m = 999 /\ utilCall.n.k = 0) => utilCall.result = "999"
        /\ (utilCall.n.m = 1235 /\ utilCall.n.k = 1) => utilCall.result = "1.2M"

\* C26: for an input d whole seconds before the reference, timeAgo is "now"
\* for d < 5 (and for a future input), "{d}s" below a minute, whole minutes
\* with "m" below an hour, whole hours with "h" below 24 hours, and from 24
\* hours on the input's month and day, followed by its year exactly when
\* that differs from the reference's year.
C26_TimeAgoBuckets ==
    utilCall.fn = "timeAgo" =>
        LET d == (utilCall.now - utilCall.input) \div 1000
            day == Calendar(utilCall.input)
            monthDay == months[day.month + 1] \o " " \o ToString(day.date)
        IN  utilCall.result =
              IF d < 5 THEN "now"
              ELSE IF d < 60 THEN ToString(d) \o "s"
              ELSE IF d < 3600 THEN ToString(d \div 60) \o "m"
              ELSE IF d < 86400 THEN ToString(d \div 3600) \o "h"
              ELSE IF day.year # Calendar(utilCall.now).year
                   THEN monthDay \o ", " \o ToString(day.year)
                   ELSE monthDay

C26_Witness ==
    /\ utilCall.fn = "timeAgo"
    /\ utilCall.now - utilCall.input = 90000000
    /\ utilCall.result = "Jan 1"

\* C27: for s >= 0 seconds, convertSecondsToTimeString is the whole minutes
\* and the whole seconds of the remainder, each with at least two digits and
\* a colon between them; the seconds are within 00..59 and the text has the
\* five characters MM:SS whenever s is below 100 minutes.
C27_TimeStringFormat ==
    utilCall.fn = "convertSecondsToTimeString" =>
        LET t == utilCall.tenths
            Two(x) == IF x < 10 THEN "0" \o ToString(x) ELSE ToString(x)
        IN  /\ \E mm \in 0..(t \div 600), ss \in 0..59 :
                 /\ mm * 600 + ss * 10 <= t /\ t < mm * 600 + ss * 10 + 10
                 /\ utilCall.result = Two(mm) \o ":" \o Two(ss)
            /\ t < 60000 => Len(utilCall.result) = 5

C27_Witness ==
    /\ utilCall.fn = "convertSecondsToTimeString"
    /\ utilCall.tenths = 900 /\ utilCall.result = "01:30"

\* ------------------------------------------- callback order properties
\* C28: in a visibility callback of the feed that changes the active item
\* and records an impression, the active-item pointer is set before the
\* impression is recorded, and the impression is that of the previous item
\* with the time since its watch interval started.
C28_PointerBeforeImpression ==
    [][(/\ screen = "feed" /\ viewableEvent'.called
        /\ currentIndex' # currentIndex /\ emitted' # << >>)
       => /\ \E i, j \in 1..Len(viewableEvent'.effects) :
                /\ viewableEvent'.effects[i] = "setCurrentIndex"
                /\ viewableEvent'.effects[j] = "recordImpression"
                /\ i < j
          /\ emitted'[1].id = currentVideoRef
          /\ emitted'[1].duration = now - watchStartTimeRef]_vars

\* ------------------------------------------- activation properties
\* C29: when a mounted item stops being active its manual-control flag and
\* its sensitivity acknowledgement are reset, so a sensitive item shows the
\* gate; when it becomes active again it still shows the gate and the
\* activation starts under automatic control.
C29_InactiveResets ==
    [][/\ (mounted /\ isActive /\ ~isActive') =>
            /\ ~manualControlRef' /\ ~playSensitive'
            /\ is_sensitive => GateRendered'
       /\ (mounted /\ ~isActive /\ isActive') =>
            /\ ~manualControlRef'
            /\ is_sensitive => GateRendered']_vars

\* C30: whenever a mounted item becomes active after having been inactive
\* its playback position is 0 afterwards, whatever happened before; a modal
\* opening or closing while the item stays active leaves the position as it
\* was.
C30_ReactivationRestarts ==
    [][/\ (mounted /\ ~isActive /\ isActive') => currentTime' = 0
       /\ (mounted /\ isActive /\ ModalChanged) => currentTime' = currentTime]_vars

\* ------------------------------------------------- scrub properties
\* C31: while a scrub gesture is in progress on a mounted item, no change of
\* screen focus, of a modal flag or of the active index starts playback of
\* the item.
C31_ScrubSuppressesAuto ==
    [][(/\ mounted /\ touching /\ touching'
        /\ (AutoEventStep \/ isActive' # isActive)
        /\ ~Playing)
       => ~Playing']_vars

\* ------------------------------------------------- timer properties
\* C32: at most one auto-hide timer of the item is pending, a reveal leaves
\* exactly one pending, no timer is pending while the item is unmounted and
\* the timer callback never runs on an unmounted item.
C32_SingleTimer ==
    /\ [](pendingTimers <= 1 /\ (~mounted => pendingTimers = 0))
    /\ [][handleScreenPress => pendingTimers' = 1]_vars
    /\ [][controlsTimeout => mounted]_vars

\* A timer is pending on hidden controls (the scrub hid them): the next
\* reveal has a timer to replace.
C32_Witness ==
    /\ mounted /\ ~showControls /\ ~touching /\ ~GateRendered
    /\ controlsTimeoutRef = "pending" /\ pendingTimers = 1


\* ------------------------------------------------- engine-fault properties
\* C33: an engine exception on a play or pause command does not leave the
\* handler and leaves the bookkeeping untouched. A toggle that leaves isPlaying
\* as it was is one whose command threw (both branches of the handler flip
\* the flag otherwise): it must leave the manual-control flag as it was. A
\* scrub start that leaves isPlaying set, or a scrub end that leaves it
\* clear, is one whose command threw: it must not raise.
C33_FaultContained ==
    /\ [][(togglePlayPause /\ isPlaying' = isPlaying)
            => manualControlRef' = manualControlRef]_vars
    /\ [][((OnTimelineTouchStart /\ isPlaying')
            \/ (OnTimelineTouchEnd /\ ~isPlaying')) => ~raised']_vars


\* ------------------------------------------------- single-player properties
\* C34: an item that has become inactive is paused once the change of the
\* active index has been processed (its effects have run), whether or not the
\* item was under manual control at that moment; so an inactive item never
\* plays next to the active one.
C34_InactivePaused ==
    [][(mounted /\ isActive /\ ~isActive') => ~Playing']_vars


\* ------------------------------------------------- flag/engine agreement
\* C35: when no engine command fails, after every handler of a mounted item
\* (automatic effect, togglePlayPause, scrub start, move and end) the
\* isPlaying flag equals the engine's play state.
C35_FlagMatchesEngine ==
    mounted => (isPlaying = enginePlaying)


\* ------------------------------------------------- impression properties
\* C36: an activation of an item is reported by at most one impression. The
\* impressions an event emits all cover the activation that is current when
\* the event starts, so one event emits at most one; and after an event other
\* than a visibility change has reported the current activation (which it
\* leaves current), the next event reports nothing.
C36_OneImpressionPerActivation ==
    /\ [](Len(emitted) <= 1)
    /\ [][(emitted # << >> /\ lastOp \notin {"scroll", "report"})
            => emitted' = << >>]_vars


\* C37: every impression emitted while the personalized feed is shown carries
\* the id of an item of that feed's own list; an item that was active in the
\* following or local feed is never reported after the switch to forYou.
C37_ImpressionOfForYouItem ==
    \A i \in 1..Len(emitted) : emitted[i].id[1] = "forYou"

\* C38: whenever the rendered list is non-empty, the active-item pointer
\* refers to one of its rows.
C38_PointerInRange ==
    (screenMounted /\ ListMounted /\ Len(videosWithEnd) > 0)
        => (currentIndex >= 0 /\ currentIndex < Len(videosWithEnd))

====
